---- MODULE Spec2Model ----
(***************************************************************************)
(* Gradient synchronisation of chainermn: PureNcclCommunicator and         *)
(* SingleNodeCommunicator.  One communicator object per process of the     *)
(* group; the processes meet only in the collective operations.            *)
(*                                                                         *)
(* Array elements are exact rationals <<numerator, denominator>>.  Sums    *)
(* and the multiplication by 1/size are exact; astype() to a narrower      *)
(* float type rounds to that type's resolution (nearest, ties to even).    *)
(***************************************************************************)
EXTENDS Integers, Sequences, FiniteSets, TLC

\* ------------------------------------------------------------------ bounds

\* Number of cooperating processes (mpi_comm.size).
NProcs == 2

\* Number of public operations one process starts.
MaxCalls == 2

\* ------------------------------------------------------- program constants

\* Root rank of the broadcast.
Root == 0

\* Oldest supported NCCL version.
MinNcclVersion == 2000

\* Item size and wire type SingleNodeCommunicator uses for every view.
SingleNodeItemsize == 4

Procs == 0..(NProcs - 1)

None == "None"

\* ------------------------------------------------------------- arithmetic

RECURSIVE GCD(_, _)
GCD(a, b) == IF b = 0 THEN a ELSE GCD(b, a % b)

Abs(x) == IF x < 0 THEN -x ELSE x

\* The rational n/d (d > 0) in lowest terms.
Rat(n, d) ==
    LET g == GCD(Abs(n), d) IN <<n \div g, d \div g>>

RatAdd(x, y) == Rat(x[1] * y[2] + y[1] * x[2], x[2] * y[2])

RatMul(x, y) == Rat(x[1] * y[1], x[2] * y[2])

RatLeq(x, y) == x[1] * y[2] <= y[1] * x[2]

RatAbsDiff(x, y) == Rat(Abs(x[1] * y[2] - y[1] * x[2]), x[2] * y[2])

\* Nearest multiple of 1/g, ties to the even multiple.
RoundTo(x, g) ==
    LET num == x[1] * g
        den == x[2]
        q   == num \div den
        r2  == 2 * (num - q * den)
        up  == r2 > den \/ (r2 = den /\ q % 2 # 0)
    IN  Rat(IF up THEN q + 1 ELSE q, g)

\* ------------------------------------------------------------------ dtypes

FloatDtypes == {"float16", "float32", "float64"}

itemsize(dtype) ==
    CASE dtype = "float16"  -> 2
      [] dtype = "float32"  -> 4
      [] dtype = "float64"  -> 8
      [] dtype = "float128" -> 16
      [] dtype = "int32"    -> 4

\* numpy's dtype.kind: 'f' for the floating-point types.
kind(dtype) ==
    IF dtype \in {"float16", "float32", "float64", "float128"} THEN "f" ELSE "i"

\* Representable values of a float type are the multiples of 1/resolution.
resolution(dtype) ==
    CASE dtype = "float16"  -> 1
      [] dtype = "float32"  -> 2
      [] dtype = "float64"  -> 4
      [] dtype = "float128" -> 8

\* ndarray.astype: exact into a type at least as wide, rounded into a narrower one.
astype(arr, from, to) ==
    [i \in 1..Len(arr) |->
        IF itemsize(to) >= itemsize(from) THEN arr[i]
        ELSE RoundTo(arr[i], resolution(to))]

\* ------------------------------------------------------------ DeviceMemory

\* What a read of device memory that was never written yields.
Uninitialized == <<-99, 1>>

\* An attribute the constructor has not created.
NoBuffer == [exists |-> FALSE, size |-> 0, mem |-> <<>>]

\* DeviceMemory(): an empty buffer.
DeviceMemory == [exists |-> TRUE, size |-> 0, mem |-> <<>>]

\* assign(n_bytes): grow to n_bytes, or keep a sufficient allocation.
assign(buf, n_bytes) ==
    IF n_bytes > buf.size
    THEN [exists |-> TRUE, size |-> n_bytes, mem |-> <<>>]
    ELSE buf

ReadAt(mem, i) == IF i <= Len(mem) THEN mem[i] ELSE Uninitialized

Min(a, b) == IF a < b THEN a ELSE b

Max(a, b) == IF a > b THEN a ELSE b

\* Write the elements of v into mem from element offset off; cap elements
\* fit the allocation, and what is written past it is not kept.
WriteAt(mem, off, v, cap) ==
    [i \in 1..Min(Max(Len(mem), off + Len(v)), cap) |->
        IF i > off /\ i <= off + Len(v) THEN v[i - off] ELSE ReadAt(mem, i)]

\* array(count): the typed view of the first count elements.
array(buf, count) == [i \in 1..count |-> ReadAt(buf.mem, i)]

\* from_device(src, size): copy src, items of item_size bytes, to the start
\* of the buffer.
from_device(buf, src, item_size) ==
    [buf EXCEPT !.mem = WriteAt(buf.mem, 0, src, buf.size \div item_size)]

\* ------------------------------------------------------ pack/unpack engine

\* pack_params: copy each view to the running offset, in parameter order.
RECURSIVE PackWalk(_, _, _, _, _)
PackWalk(views, k, mem, offset, cap) ==
    IF k > Len(views) THEN mem
    ELSE PackWalk(views, k + 1, WriteAt(mem, offset, views[k], cap),
                  offset + Len(views[k]), cap)

pack_params(views, item_size, buf) ==
    [buf EXCEPT !.mem = PackWalk(views, 1, buf.mem, 0, buf.size \div item_size)]

\* Offset of parameter k: the sizes of the parameters before it.
RECURSIVE OffsetOf(_, _)
OffsetOf(sizes, k) ==
    IF k = 1 THEN 0 ELSE OffsetOf(sizes, k - 1) + sizes[k - 1]

\* unpack_params: copy from the running offset back into each view.
unpack_params(sizes, buf) ==
    [k \in 1..Len(sizes) |->
        [i \in 1..sizes[k] |-> ReadAt(buf.mem, OffsetOf(sizes, k) + i)]]

\* ------------------------------------------------------------------- state

VARIABLES
    cls,            \* the communicator class every process instantiates
    size,           \* mpi_comm.size: the processes 0 .. size-1 form the group
    nccl,           \* the nccl module: get_version() and _available
    inter_size,     \* number of nodes found by the rank/topology resolver
    dtype_arg,      \* PureNcclCommunicator's allreduce_grad_dtype argument
    model,          \* the model: storage type and parameters in name order
    grad0,          \* the gradient each process holds before any call
    comm,           \* comm[p]: the communicator object of process p
    grad,           \* grad[p][k]: gradient view of parameter k at process p
    data,           \* data[p][k]: data view of parameter k at process p
    calls,          \* calls[p][op]: public calls process p has started
    returned        \* returned[p][op]: public calls that returned normally

inputs == <<cls, size, nccl, inter_size, dtype_arg, model, grad0>>

vars == <<cls, size, nccl, inter_size, dtype_arg, model, grad0,
          comm, grad, data, calls, returned>>

\* A handle attribute holding None.
NoComm == 0

Ops == {"allreduce_grad", "broadcast_data"}

\* The processes of the group.
Group == 0..(size - 1)

\* ------------------------------------------------------------------ inputs

NcclVersions == {1999, 2000}

InterSizes == {1, 2}

DtypeArgs == {None, "float16", "float32", "float64", "float128", "int32"}

Param(n, g) == [size |-> n, has_grad |-> g]

\* Parameter lists in name order: none, frozen only, one, two of unlike
\* sizes, a frozen parameter before a trainable one.
ParamLists ==
    { <<>>,
      << Param(1, FALSE) >>,
      << Param(2, TRUE) >>,
      << Param(1, TRUE), Param(2, TRUE) >>,
      << Param(1, FALSE), Param(2, TRUE) >> }

\* Gradient seeds of a storage type: its smallest step and a whole number.
GradVals(dtype) == { <<1, resolution(dtype)>>, <<3, 1>> }

Sizes(params) == [k \in 1..Len(params) |-> params[k].size]

\* The gradient views of a process: distinct values at distinct positions.
GradViews(params, seed) ==
    [k \in 1..Len(params) |->
        IF params[k].has_grad
        THEN [i \in 1..params[k].size |->
                RatAdd(seed, <<OffsetOf(Sizes(params), k) + i - 1, 1>>)]
        ELSE <<>>]

\* The data views of a process: distinct at every process and position.
DataViews(params, p) ==
    [k \in 1..Len(params) |->
        [i \in 1..params[k].size |-> <<100 * (p + 1) + 10 * k + i, 1>>]]

HasGrads(params) == \E k \in 1..Len(params) : params[k].has_grad

\* The object before its constructor has run.
NewObject ==
    [ pc                     |-> "new",
      err                    |-> "none",
      inter_mpi_comm         |-> NoComm,
      nccl_comm              |-> NoComm,
      intra_nccl_comm        |-> NoComm,
      allreduce_grad_dtype   |-> "unset",
      gpu_tmp_buffer         |-> NoBuffer,
      gpu_allreduce_buffer_a |-> NoBuffer,
      gpu_allreduce_buffer_b |-> NoBuffer,
      gpu_buffer_a           |-> NoBuffer,
      gpu_buffer_b           |-> NoBuffer,
      hook_calls             |-> 0,
      op                     |-> "none",
      stream                 |-> "null",
      trace                  |-> <<>> ]

Init ==
    /\ cls \in {"PureNccl", "SingleNode"}
    /\ size \in 1..NProcs
    /\ nccl \in [version : NcclVersions, available : BOOLEAN]
    /\ inter_size \in InterSizes
    /\ dtype_arg \in DtypeArgs
    /\ model \in [dtype : FloatDtypes, params : ParamLists]
    \* SingleNodeCommunicator takes no dtype argument, asks for no version and
    \* moves 4-byte items; PureNcclCommunicator never reads inter_size.
    /\ cls = "SingleNode" =>
          /\ dtype_arg = None
          /\ nccl.version = MinNcclVersion
          /\ itemsize(model.dtype) = SingleNodeItemsize
    /\ cls = "PureNccl" => inter_size = 1
    /\ grad0 \in [Procs -> GradVals(model.dtype)]
    /\ \A p \in Procs :
          (p \notin Group \/ ~HasGrads(model.params)) => grad0[p] = <<3, 1>>
    /\ grad = [p \in Procs |-> GradViews(model.params, grad0[p])]
    /\ data = [p \in Procs |-> DataViews(model.params, p)]
    /\ comm = [p \in Procs |-> NewObject]
    /\ calls = [p \in Procs |-> [op \in Ops |-> 0]]
    /\ returned = [p \in Procs |-> [op \in Ops |-> 0]]

\* ------------------------------------------------------------ constructors

Raise(self, e) == [self EXCEPT !.pc = "raised", !.err = e]

Fail(self, e) == [self EXCEPT !.pc = "failed", !.err = e]

Log(self, ev) == [self EXCEPT !.trace = Append(@, ev)]

\* CommunicatorBase.__init__: the sub-communicators are not built yet.
CommunicatorBase_init(self) == [self EXCEPT !.inter_mpi_comm = NoComm]

\* PureNcclCommunicator.__init__ refusing the oldest supported version too.
PureNcclCommunicator_init_off_by_one(self, version, dtype) ==
    LET s0 == CommunicatorBase_init(self)
        s1 == [s0 EXCEPT !.nccl_comm = NoComm,
                         !.gpu_tmp_buffer = DeviceMemory,
                         !.gpu_allreduce_buffer_a = DeviceMemory,
                         !.gpu_allreduce_buffer_b = DeviceMemory]
    IN  IF version <= MinNcclVersion THEN Fail(s0, "RuntimeError")
        ELSE IF dtype # None
        THEN LET s2 == [s1 EXCEPT !.allreduce_grad_dtype = dtype]
             IN  IF kind(dtype) # "f" THEN Fail(s2, "ValueError")
                 ELSE [s2 EXCEPT !.pc = "idle"]
        ELSE [s1 EXCEPT !.allreduce_grad_dtype = None, !.pc = "idle"]

PureNcclCommunicator_init(self, version, dtype) ==
    LET s0 == CommunicatorBase_init(self)
        s1 == [s0 EXCEPT !.nccl_comm = NoComm,
                         !.gpu_tmp_buffer = DeviceMemory,
                         !.gpu_allreduce_buffer_a = DeviceMemory,
                         !.gpu_allreduce_buffer_b = DeviceMemory]
    IN  IF version < MinNcclVersion THEN Fail(s0, "RuntimeError")
        ELSE IF dtype # None
        THEN LET s2 == [s1 EXCEPT !.allreduce_grad_dtype = dtype]
             IN  IF kind(dtype) # "f" THEN Fail(s2, "ValueError")
                 ELSE [s2 EXCEPT !.pc = "idle"]
        ELSE [s1 EXCEPT !.allreduce_grad_dtype = None, !.pc = "idle"]

\* SingleNodeCommunicator.__init__ building the handle in the constructor.
SingleNodeCommunicator_init_eager(self, n_nodes) ==
    LET s0 == CommunicatorBase_init(self)
    IN  IF n_nodes # 1 THEN Fail(s0, "ValueError")
        ELSE [s0 EXCEPT !.gpu_buffer_a = DeviceMemory,
                        !.gpu_buffer_b = DeviceMemory,
                        !.intra_nccl_comm = self.hook_calls + 1,
                        !.hook_calls = @ + 1,
                        !.pc = "idle"]

\* SingleNodeCommunicator.__init__ without the topology check.
SingleNodeCommunicator_init_unchecked(self, n_nodes) ==
    LET s0 == CommunicatorBase_init(self)
    IN  [s0 EXCEPT !.gpu_buffer_a = DeviceMemory,
                   !.gpu_buffer_b = DeviceMemory,
                   !.intra_nccl_comm = NoComm,
                   !.pc = "idle"]

SingleNodeCommunicator_init(self, n_nodes) ==
    LET s0 == CommunicatorBase_init(self)
    IN  IF n_nodes # 1 THEN Fail(s0, "ValueError")
        ELSE [s0 EXCEPT !.gpu_buffer_a = DeviceMemory,
                        !.gpu_buffer_b = DeviceMemory,
                        !.intra_nccl_comm = NoComm,
                        !.pc = "idle"]

\* Process p constructs its communicator.
Construct(p) ==
    /\ p \in Group
    /\ comm[p].pc = "new"
    /\ comm' = [comm EXCEPT ![p] =
                  IF cls = "PureNccl"
                  THEN PureNcclCommunicator_init(@, nccl.version, dtype_arg)
                  ELSE SingleNodeCommunicator_init(@, inter_size)]
    /\ UNCHANGED <<inputs, grad, data, calls, returned>>

\* --------------------------------------------------- parameter extraction

\* extract_params: the parameters that have a gradient, in name order.
extract_params(params) ==
    SelectSeq([k \in 1..Len(params) |-> k], LAMBDA k : params[k].has_grad)

\* sorted(model.namedparams()): every parameter, in name order.
namedparams(params) == [k \in 1..Len(params) |-> k]

RECURSIVE SumSeq(_)
SumSeq(s) == IF s = <<>> THEN 0 ELSE Head(s) + SumSeq(Tail(s))

\* sum(param.grad.size for param in params)
n_elems_of(params, idx) == SumSeq([j \in 1..Len(idx) |-> params[idx[j]].size])

Select(views, idx) == [j \in 1..Len(idx) |-> views[idx[j]]]

\* The views after an unpack into the parameters idx; the others keep theirs.
Merge(views, idx, new) ==
    [k \in 1..Len(views) |->
        IF \E j \in 1..Len(idx) : idx[j] = k
        THEN new[CHOOSE j \in 1..Len(idx) : idx[j] = k]
        ELSE views[k]]

\* --------------------------------------------------- PureNcclCommunicator

\* _communication_utility.init_nccl_comm: a handle not handed out before.
init_nccl_comm(self) == self.hook_calls + 1

\* _init_comms building the handle without asking whether NCCL is there.
PureNccl_init_comms_unchecked(self, available) ==
    IF self.nccl_comm # NoComm THEN self
    ELSE [self EXCEPT !.nccl_comm = init_nccl_comm(self),
                      !.hook_calls = @ + 1]

\* _init_comms dropping the handle it has built.
PureNccl_init_comms_not_stored(self, available) ==
    IF self.nccl_comm # NoComm THEN self
    ELSE IF ~available THEN Raise(self, "RuntimeError")
    ELSE [self EXCEPT !.hook_calls = @ + 1]

PureNccl_init_comms(self, available) ==
    IF self.nccl_comm # NoComm THEN self
    ELSE IF ~available THEN Raise(self, "RuntimeError")
    ELSE [self EXCEPT !.nccl_comm = init_nccl_comm(self),
                      !.hook_calls = @ + 1]

\* The wire type allreduce_grad resolves for a gradient storage type.
PureNccl_wire_dtype(self, grad_dtype) ==
    IF self.allreduce_grad_dtype = None THEN grad_dtype
    ELSE self.allreduce_grad_dtype

\* _get_nccl_type_id with the last branch handing out a tag.
get_nccl_type_id_partial(dtype) ==
    IF dtype = "float16" THEN "NCCL_FLOAT16"
    ELSE IF dtype = "float32" THEN "NCCL_FLOAT32"
    ELSE "NCCL_FLOAT64"

get_nccl_type_id(dtype) ==
    IF dtype = "float16" THEN "NCCL_FLOAT16"
    ELSE IF dtype = "float32" THEN "NCCL_FLOAT32"
    ELSE IF dtype = "float64" THEN "NCCL_FLOAT64"
    ELSE "ValueError"

\* _assign leaving out the staging buffer.
PureNccl_assign_no_tmp(self, grad_dtype, allreduce_grad_dtype, n_elems) ==
    LET allreduce_grad_n_bytes == itemsize(allreduce_grad_dtype) * n_elems
    IN  Log(Log([self EXCEPT
            !.gpu_allreduce_buffer_a = assign(@, allreduce_grad_n_bytes),
            !.gpu_allreduce_buffer_b = assign(@, allreduce_grad_n_bytes)],
            "assign_a"), "assign_b")

PureNccl_assign(self, grad_dtype, allreduce_grad_dtype, n_elems) ==
    LET allreduce_grad_n_bytes == itemsize(allreduce_grad_dtype) * n_elems
        s1 == Log(Log([self EXCEPT
                  !.gpu_allreduce_buffer_a = assign(@, allreduce_grad_n_bytes),
                  !.gpu_allreduce_buffer_b = assign(@, allreduce_grad_n_bytes)],
                  "assign_a"), "assign_b")
    IN  IF grad_dtype # allreduce_grad_dtype
        THEN Log([s1 EXCEPT !.gpu_tmp_buffer =
                               assign(@, itemsize(grad_dtype) * n_elems)],
                 "assign_tmp")
        ELSE s1

\* _pack_params_to_buffer with the type test inverted.
PureNccl_pack_params_to_buffer_inverted(self, views, grad_dtype, allreduce_grad_dtype, n_elems) ==
    IF grad_dtype # allreduce_grad_dtype
    THEN Log([self EXCEPT !.gpu_allreduce_buffer_a =
                 pack_params(views, itemsize(allreduce_grad_dtype), @)],
             "pack_a")
    ELSE LET s1  == Log([self EXCEPT !.gpu_tmp_buffer =
                            pack_params(views, itemsize(grad_dtype), @)],
                        "pack_tmp")
             ret == astype(array(s1.gpu_tmp_buffer, n_elems),
                           grad_dtype, allreduce_grad_dtype)
         IN  Log(Log([s1 EXCEPT !.gpu_allreduce_buffer_a =
                         from_device(@, ret, itemsize(allreduce_grad_dtype))],
                     "astype_wire"), "copy_to_a")

PureNccl_pack_params_to_buffer(self, views, grad_dtype, allreduce_grad_dtype, n_elems) ==
    IF grad_dtype = allreduce_grad_dtype
    THEN Log([self EXCEPT !.gpu_allreduce_buffer_a =
                 pack_params(views, itemsize(allreduce_grad_dtype), @)],
             "pack_a")
    ELSE LET s1  == Log([self EXCEPT !.gpu_tmp_buffer =
                            pack_params(views, itemsize(grad_dtype), @)],
                        "pack_tmp")
             ret == astype(array(s1.gpu_tmp_buffer, n_elems),
                           grad_dtype, allreduce_grad_dtype)
         IN  Log(Log([s1 EXCEPT !.gpu_allreduce_buffer_a =
                         from_device(@, ret, itemsize(allreduce_grad_dtype))],
                     "astype_wire"), "copy_to_a")

\* _unpack_params_from_buffer unpacking buffer B whatever the types.
PureNccl_unpack_params_from_buffer_direct(self, sizes, grad_dtype, allreduce_grad_dtype, n_elems) ==
    [self  |-> Log(self, "unpack_b"),
     views |-> unpack_params(sizes, self.gpu_allreduce_buffer_b)]

\* The object and the gradient views after the unpack.
PureNccl_unpack_params_from_buffer(self, sizes, grad_dtype, allreduce_grad_dtype, n_elems) ==
    IF grad_dtype = allreduce_grad_dtype
    THEN [self  |-> Log(self, "unpack_b"),
          views |-> unpack_params(sizes, self.gpu_allreduce_buffer_b)]
    ELSE LET ret == astype(array(self.gpu_allreduce_buffer_b, n_elems),
                           allreduce_grad_dtype, grad_dtype)
             s1  == Log(Log([self EXCEPT !.gpu_tmp_buffer =
                                from_device(@, ret, itemsize(grad_dtype))],
                            "astype_native"), "copy_to_tmp")
         IN  [self  |-> Log(s1, "unpack_tmp"),
              views |-> unpack_params(sizes, s1.gpu_tmp_buffer)]

\* if stream != Stream.null: chainer.cuda.Stream.null.synchronize()
null_synchronize(self, stream) ==
    IF stream # "null" THEN Log(self, "null_synchronize") ELSE self

\* allreduce_grad never waiting for the stream of the collective.
stream_synchronize_missing(self, stream) == self

\* if stream != Stream.null: stream.synchronize()
stream_synchronize(self, stream) ==
    IF stream # "null" THEN Log(self, "stream_synchronize") ELSE self

\* allreduce_grad up to the point where the collective allReduce is entered.
PureNccl_allreduce_grad_call(self, mdl, views, stream, available) ==
    LET s0 == [self EXCEPT !.op = "allreduce_grad", !.stream = stream,
                           !.trace = <<"init_comms">>]
        s1 == PureNccl_init_comms(s0, available)
        params == extract_params(mdl.params)
    IN  IF s1.pc = "raised" THEN s1
        ELSE IF params = <<>> THEN Raise(Log(s1, "extract_params"), "IndexError")
        ELSE
          LET grad_dtype == mdl.dtype
              allreduce_grad_dtype == PureNccl_wire_dtype(s1, grad_dtype)
              n_elems == n_elems_of(mdl.params, params)
              s2 == PureNccl_assign(Log(s1, "extract_params"), grad_dtype,
                                    allreduce_grad_dtype, n_elems)
              s3 == PureNccl_pack_params_to_buffer(s2, Select(views, params),
                        grad_dtype, allreduce_grad_dtype, n_elems)
              s4 == null_synchronize(s3, stream)
          IN  IF get_nccl_type_id(allreduce_grad_dtype) = "ValueError"
              THEN Raise(s4, "ValueError")
              ELSE [Log(s4, "allReduce") EXCEPT !.pc = "allReduce"]

\* The reduced sum left unscaled.
PureNccl_scale_missing(arr, n) == arr

\* array * (1.0 / self.size)
PureNccl_scale(arr, n) == [i \in 1..Len(arr) |-> RatMul(arr[i], <<1, n>>)]

\* allreduce_grad from the return of the collective: scale and unpack.
PureNccl_allreduce_grad_return(self, mdl, views, n) ==
    LET params == extract_params(mdl.params)
        grad_dtype == mdl.dtype
        allreduce_grad_dtype == PureNccl_wire_dtype(self, grad_dtype)
        n_elems == n_elems_of(mdl.params, params)
        s1  == stream_synchronize(self, self.stream)
        ret == PureNccl_scale(array(s1.gpu_allreduce_buffer_b, n_elems), n)
        s2  == Log(Log([s1 EXCEPT !.gpu_allreduce_buffer_b =
                           from_device(@, ret, itemsize(allreduce_grad_dtype))],
                       "scale"), "copy_to_b")
        out == PureNccl_unpack_params_from_buffer(s2,
                   Sizes(Select(mdl.params, params)), grad_dtype,
                   allreduce_grad_dtype, n_elems)
    IN  [self  |-> [out.self EXCEPT !.pc = "idle"],
         views |-> Merge(views, params, out.views)]

\* broadcast_data: broadcast_naive over mpi_comm; no NCCL handle is used.
PureNccl_broadcast_data_call(self) ==
    [self EXCEPT !.op = "broadcast_data", !.stream = "null",
                 !.trace = <<"broadcast_naive">>, !.pc = "bcast"]

\* ------------------------------------------------- SingleNodeCommunicator

\* _communication_utility.init_intra_nccl_comm: a handle not handed out before.
init_intra_nccl_comm(self) == self.hook_calls + 1

\* _init_comms returning quietly when NCCL is not available.
SingleNode_init_comms_silent(self, available) ==
    IF self.inter_mpi_comm # NoComm
    THEN IF self.intra_nccl_comm # NoComm THEN self
         ELSE Raise(self, "AssertionError")
    ELSE IF ~available THEN self
    ELSE [self EXCEPT !.intra_nccl_comm = init_intra_nccl_comm(self),
                      !.hook_calls = @ + 1]

SingleNode_init_comms(self, available) ==
    IF self.inter_mpi_comm # NoComm
    THEN IF self.intra_nccl_comm # NoComm THEN self
         ELSE Raise(self, "AssertionError")
    ELSE IF ~available THEN Raise(self, "RuntimeError")
    ELSE [self EXCEPT !.intra_nccl_comm = init_intra_nccl_comm(self),
                      !.hook_calls = @ + 1]

\* broadcast_data up to the point where the collective bcast is entered.
SingleNode_broadcast_data_call(self, mdl, views, available) ==
    LET s0 == [self EXCEPT !.op = "broadcast_data", !.stream = "null",
                           !.trace = <<"init_comms">>]
        s1 == SingleNode_init_comms(s0, available)
        params == namedparams(mdl.params)
    IN  IF s1.pc = "raised" THEN s1
        ELSE IF \E j \in 1..Len(params) : ~mdl.params[params[j]].has_grad
        THEN Raise(s1, "AttributeError")
        ELSE
          LET n_elems_total == n_elems_of(mdl.params, params)
              n_bytes_total == n_elems_total * SingleNodeItemsize
              s2 == Log([s1 EXCEPT !.gpu_buffer_a = assign(@, n_bytes_total)],
                        "assign_a")
              s3 == Log([s2 EXCEPT !.gpu_buffer_a =
                            pack_params(Select(views, params),
                                        SingleNodeItemsize, @)],
                        "pack_a")
          IN  [Log(s3, "bcast") EXCEPT !.pc = "bcast"]

\* broadcast_data from the return of the collective: unpack buffer a.
SingleNode_broadcast_data_return(self, mdl, views) ==
    LET params == namedparams(mdl.params)
    IN  [self  |-> [Log(self, "unpack_a") EXCEPT !.pc = "idle"],
         views |-> Merge(views, params,
                       unpack_params(Sizes(Select(mdl.params, params)),
                                     self.gpu_buffer_a))]

\* allreduce_grad up to the point where the collective allReduce is entered.
SingleNode_allreduce_grad_call(self, mdl, views, available) ==
    LET s0 == [self EXCEPT !.op = "allreduce_grad", !.stream = "null",
                           !.trace = <<"init_comms">>]
        s1 == SingleNode_init_comms(s0, available)
        params == extract_params(mdl.params)
    IN  IF s1.pc = "raised" THEN s1
        ELSE
          LET n_elems_total == n_elems_of(mdl.params, params)
              n_bytes_total == n_elems_total * SingleNodeItemsize
              s2 == Log(Log([Log(s1, "extract_params") EXCEPT
                        !.gpu_buffer_a = assign(@, n_bytes_total),
                        !.gpu_buffer_b = assign(@, n_bytes_total)],
                        "assign_a"), "assign_b")
              s3 == Log([s2 EXCEPT !.gpu_buffer_a =
                            pack_params(Select(views, params),
                                        SingleNodeItemsize, @)],
                        "pack_a")
          IN  [Log(s3, "allReduce") EXCEPT !.pc = "allReduce"]

\* The factor 1/size applied a second time.
SingleNode_scale_twice(arr, n) ==
    [i \in 1..Len(arr) |-> RatMul(arr[i], <<1, n * n>>)]

\* arr *= (1.0 / self.size)
SingleNode_scale(arr, n) == [i \in 1..Len(arr) |-> RatMul(arr[i], <<1, n>>)]

\* allreduce_grad from the return of the collective: scale in place, unpack.
SingleNode_allreduce_grad_return(self, mdl, views, n) ==
    LET params == extract_params(mdl.params)
        n_elems_total == n_elems_of(mdl.params, params)
        arr == array(self.gpu_buffer_b, n_elems_total)
        s1  == Log([self EXCEPT !.gpu_buffer_b =
                       from_device(@, SingleNode_scale(arr, n),
                                   SingleNodeItemsize)],
                   "scale")
    IN  [self  |-> [Log(s1, "unpack_b") EXCEPT !.pc = "idle"],
         views |-> Merge(views, params,
                       unpack_params(Sizes(Select(mdl.params, params)),
                                     s1.gpu_buffer_b))]

\* ------------------------------------------------------------- collectives

\* Sum of f(0), ..., f(r).
RECURSIVE SumRanks(_, _, _)
SumRanks(send, i, r) ==
    IF r = 0 THEN send[0][i] ELSE RatAdd(SumRanks(send, i, r - 1), send[r][i])

\* ncclAllReduce with NCCL_SUM: every receive buffer gets the element-wise sum.
nccl_allReduce(send, count) ==
    [i \in 1..count |-> SumRanks(send, i, size - 1)]

\* ncclBcast / MPI Bcast: every process gets the root's elements.
nccl_bcast(send, root) == send[root]

SendBuffer(self) ==
    IF cls = "PureNccl" THEN self.gpu_allreduce_buffer_a ELSE self.gpu_buffer_a

\* Item size of the wire type of the collective.
WireItemsize(self) ==
    IF cls = "PureNccl" THEN itemsize(PureNccl_wire_dtype(self, model.dtype))
    ELSE SingleNodeItemsize

\* ----------------------------------------------------------------- actions

Streams == IF cls = "PureNccl" THEN {"null", "stream1"} ELSE {"null"}

Started(p) == calls[p]["allreduce_grad"] + calls[p]["broadcast_data"]

\* Process p calls allreduce_grad(model, stream) and runs to the collective.
AllreduceGrad(p) ==
    /\ comm[p].pc = "idle"
    /\ Started(p) < MaxCalls
    /\ \E stream \in Streams :
          comm' = [comm EXCEPT ![p] =
              IF cls = "PureNccl"
              THEN PureNccl_allreduce_grad_call(@, model, grad[p], stream,
                                                nccl.available)
              ELSE SingleNode_allreduce_grad_call(@, model, grad[p],
                                                  nccl.available)]
    /\ calls' = [calls EXCEPT ![p]["allreduce_grad"] = @ + 1]
    /\ UNCHANGED <<inputs, grad, data, returned>>

\* Process p calls broadcast_data(model) and runs to the collective.
BroadcastData(p) ==
    /\ comm[p].pc = "idle"
    /\ Started(p) < MaxCalls
    /\ comm' = [comm EXCEPT ![p] =
          IF cls = "PureNccl"
          THEN PureNccl_broadcast_data_call(@)
          ELSE SingleNode_broadcast_data_call(@, model, data[p],
                                              nccl.available)]
    /\ calls' = [calls EXCEPT ![p]["broadcast_data"] = @ + 1]
    /\ UNCHANGED <<inputs, grad, data, returned>>

\* A reduction that completes for the processes that have entered it,
\* without waiting for the others.
AllReduce_partial ==
    /\ \E p \in Group : comm[p].pc = "allReduce"
    /\ LET count == n_elems_of(model.params, extract_params(model.params))
           send  == [p \in Group |-> array(SendBuffer(comm[p]), count)]
           recv  == nccl_allReduce(send, count)
       IN  comm' = [p \in Procs |->
              IF p \notin Group \/ comm[p].pc # "allReduce" THEN comm[p]
              ELSE IF cls = "PureNccl"
              THEN [comm[p] EXCEPT !.pc = "reduced",
                       !.gpu_allreduce_buffer_b =
                           from_device(@, recv, WireItemsize(comm[p]))]
              ELSE [comm[p] EXCEPT !.pc = "reduced",
                       !.gpu_buffer_b =
                           from_device(@, recv, WireItemsize(comm[p]))]]
    /\ UNCHANGED <<inputs, grad, data, calls, returned>>

\* Every process of the group has entered allReduce: the reduction completes.
AllReduce ==
    /\ \A p \in Group : comm[p].pc = "allReduce"
    /\ LET count == n_elems_of(model.params, extract_params(model.params))
           send  == [p \in Group |-> array(SendBuffer(comm[p]), count)]
           recv  == nccl_allReduce(send, count)
       IN  comm' = [p \in Procs |->
              IF p \notin Group THEN comm[p]
              ELSE IF cls = "PureNccl"
              THEN [comm[p] EXCEPT !.pc = "reduced",
                       !.gpu_allreduce_buffer_b =
                           from_device(@, recv, WireItemsize(comm[p]))]
              ELSE [comm[p] EXCEPT !.pc = "reduced",
                       !.gpu_buffer_b =
                           from_device(@, recv, WireItemsize(comm[p]))]]
    /\ UNCHANGED <<inputs, grad, data, calls, returned>>

\* Every process of the group has entered the broadcast: it completes.
Bcast ==
    /\ \A p \in Group : comm[p].pc = "bcast"
    /\ IF cls = "PureNccl"
       THEN /\ data' = [p \in Procs |->
                         IF p \in Group THEN nccl_bcast(data, Root) ELSE data[p]]
            /\ comm' = [p \in Procs |->
                         IF p \in Group THEN [comm[p] EXCEPT !.pc = "bcasted"]
                         ELSE comm[p]]
       ELSE LET count == n_elems_of(model.params, namedparams(model.params))
                send  == [p \in Group |-> array(comm[p].gpu_buffer_a, count)]
            IN  /\ comm' = [p \in Procs |->
                      IF p \notin Group THEN comm[p]
                      ELSE [comm[p] EXCEPT !.pc = "bcasted",
                              !.gpu_buffer_a =
                                  from_device(@, nccl_bcast(send, Root),
                                              SingleNodeItemsize)]]
                /\ UNCHANGED data
    /\ UNCHANGED <<inputs, grad, calls, returned>>

\* Process p runs allreduce_grad from the collective to its return.
AllreduceGradReturn(p) ==
    /\ comm[p].pc = "reduced"
    /\ LET out == IF cls = "PureNccl"
                  THEN PureNccl_allreduce_grad_return(comm[p], model, grad[p],
                                                      size)
                  ELSE SingleNode_allreduce_grad_return(comm[p], model, grad[p],
                                                        size)
       IN  /\ comm' = [comm EXCEPT ![p] = out.self]
           /\ grad' = [grad EXCEPT ![p] = out.views]
    /\ returned' = [returned EXCEPT ![p]["allreduce_grad"] = @ + 1]
    /\ UNCHANGED <<inputs, data, calls>>

\* Process p runs broadcast_data from the collective to its return.
BroadcastDataReturn(p) ==
    /\ comm[p].pc = "bcasted"
    /\ LET out == IF cls = "PureNccl"
                  THEN [self |-> [comm[p] EXCEPT !.pc = "idle"], views |-> data[p]]
                  ELSE SingleNode_broadcast_data_return(comm[p], model, data[p])
       IN  /\ comm' = [comm EXCEPT ![p] = out.self]
           /\ data' = [data EXCEPT ![p] = out.views]
    /\ returned' = [returned EXCEPT ![p]["broadcast_data"] = @ + 1]
    /\ UNCHANGED <<inputs, grad, calls>>

Next ==
    \/ \E p \in Procs : Construct(p)
    \/ \E p \in Procs : AllreduceGrad(p)
    \/ \E p \in Procs : BroadcastData(p)
    \/ \E p \in Procs : AllreduceGradReturn(p)
    \/ \E p \in Procs : BroadcastDataReturn(p)
    \/ AllReduce
    \/ Bcast

Spec == Init /\ [][Next]_vars

\* The step of AllReduce and the step of AllreduceGradReturn(p), told by the
\* positions of the processes before and after.
Reduces ==
    /\ \A p \in Group : comm[p].pc = "allReduce"
    /\ \A p \in Group : comm'[p].pc = "reduced"

Returns(p) == comm[p].pc = "reduced" /\ comm'[p].pc = "idle"

\* A collective every process of the group has entered completes, and a
\* process whose collective has completed runs on to the return of its
\* call: weak fairness of AllReduce and of every AllreduceGradReturn(p).
\* WF_vars(A) is written out as []<>~ENABLED <<A>>_vars \/ []<><<A>>_vars,
\* with the guard of the action for ENABLED.
FairSpec ==
    /\ Spec
    /\ \/ []<>(\E p \in Group : comm[p].pc # "allReduce")
       \/ []<><<Reduces>>_vars
    /\ \A p \in Procs :
          \/ []<>(comm[p].pc # "reduced")
          \/ []<><<Returns(p)>>_vars

\* ------------------------------------------------------------------ claims

\* The collective handle of a communicator object.
Handle(self) ==
    IF cls = "PureNccl" THEN self.nccl_comm ELSE self.intra_nccl_comm

\* The parameters allreduce_grad works on, and the gradients before any call.
Trainable == extract_params(model.params)

InitialGrad(p) == GradViews(model.params, grad0[p])

\* C1: for both communicators, in every state after the constructor has
\* returned and before any call to broadcast_data or allreduce_grad, the
\* collective handle is unset and the construction hook has run zero times.
C1_LazyAfterConstruction ==
    \A p \in Group :
        (comm[p].pc = "idle" /\ Started(p) = 0) =>
            /\ Handle(comm[p]) = NoComm
            /\ comm[p].hook_calls = 0

C1_Witness ==
    /\ cls = "SingleNode"
    /\ \A p \in Group : comm[p].pc = "idle" /\ Started(p) = 0

\* C2: the construction hook runs at most once per communicator instance,
\* whatever sequence of broadcast_data / allreduce_grad calls is made.
C2_ConstructedAtMostOnce ==
    \A p \in Group : comm[p].hook_calls <= 1

\* C3 as stated: after the first call of either public operation has returned,
\* the collective handle has been constructed.
C3_ReadyAfterAnyCall ==
    \A p \in Group :
        returned[p]["allreduce_grad"] + returned[p]["broadcast_data"] >= 1 =>
            Handle(comm[p]) # NoComm

\* C3 amended: the handle has been constructed once allreduce_grad (either
\* communicator) or SingleNodeCommunicator.broadcast_data has returned;
\* PureNcclCommunicator.broadcast_data never constructs it.
C3_ReadyAfterHandleCall ==
    \A p \in Group :
        /\ returned[p]["allreduce_grad"] >= 1 => Handle(comm[p]) # NoComm
        /\ (cls = "SingleNode" /\ returned[p]["broadcast_data"] >= 1) =>
               Handle(comm[p]) # NoComm
        /\ (cls = "PureNccl" /\ calls[p]["allreduce_grad"] = 0) =>
               /\ comm[p].nccl_comm = NoComm
               /\ comm[p].hook_calls = 0

C3_Witness ==
    \E p \in Group :
        /\ cls = "PureNccl"
        /\ returned[p]["broadcast_data"] = 1
        /\ returned[p]["allreduce_grad"] = 1
        /\ comm[p].nccl_comm # NoComm

\* C4: allreduce_grad on a model none of whose parameters has a gradient
\* returns without raising, on both communicators, and leaves the model as
\* it was.
C4_ZeroParamAllreduce ==
    \A p \in Group :
        (~HasGrads(model.params) /\ nccl.available
         /\ comm[p].op = "allreduce_grad") =>
            /\ comm[p].pc # "raised"
            /\ grad[p] = InitialGrad(p)
            /\ data[p] = DataViews(model.params, p)

\* Sum over the ranks 0..r of the gradient element i of parameter k that
\* each process held before any call.
RECURSIVE InitialSum(_, _, _)
InitialSum(k, i, r) ==
    IF r = 0 THEN InitialGrad(0)[k][i]
    ELSE RatAdd(InitialSum(k, i, r - 1), InitialGrad(r)[k][i])

\* The wire type is the gradients' storage type.
NativeWire(self) ==
    cls = "PureNccl" => PureNccl_wire_dtype(self, model.dtype) = model.dtype

\* C5: once allreduce_grad has returned at a process of a group of N
\* processes, with the native wire type, every gradient element there is
\* (sum of the processes' values) / N; with N = 1 it is the value held before.
C5_Average ==
    \A p \in Group :
        (returned[p]["allreduce_grad"] >= 1 /\ NativeWire(comm[p])) =>
            /\ \A j \in 1..Len(Trainable) :
                 \A i \in 1..model.params[Trainable[j]].size :
                    grad[p][Trainable[j]][i] =
                        RatMul(InitialSum(Trainable[j], i, size - 1), <<1, size>>)
            /\ size = 1 => grad[p] = InitialGrad(p)

C5_Witness ==
    /\ size > 1
    /\ grad0[0] # grad0[1]
    /\ Len(Trainable) = 2
    /\ \A p \in Group :
          returned[p]["allreduce_grad"] >= 1 /\ NativeWire(comm[p])

\* C6: SingleNodeCommunicator.broadcast_data leaves, at every process where it
\* has returned, root's data in every parameter, and it goes through also for
\* a model with a parameter that has a data view and no gradient view.
C6_BroadcastFromRoot ==
    cls = "SingleNode" =>
        \A p \in Group :
            /\ (nccl.available /\ comm[p].op = "broadcast_data") =>
                   comm[p].pc # "raised"
            /\ returned[p]["broadcast_data"] >= 1 =>
                   data[p] = DataViews(model.params, Root)

\* C7: a SingleNodeCommunicator constructor fails, with a ValueError, exactly
\* under inter_size > 1; the failed construction has created no device buffer
\* and built no handle.
C7_TopologyValidation ==
    cls = "SingleNode" =>
        \A p \in Group :
            comm[p].pc # "new" =>
                /\ comm[p].pc = "failed" <=> inter_size > 1
                /\ comm[p].pc = "failed" =>
                      /\ comm[p].err = "ValueError"
                      /\ ~comm[p].gpu_buffer_a.exists
                      /\ ~comm[p].gpu_buffer_b.exists
                      /\ comm[p].intra_nccl_comm = NoComm
                      /\ comm[p].hook_calls = 0

C7_Witness ==
    /\ cls = "SingleNode"
    /\ inter_size > 1
    /\ \A p \in Group : comm[p].pc = "failed"

\* C8: a PureNcclCommunicator constructor fails exactly when the NCCL version
\* is below 2000 or a dtype is given that is not a float type; otherwise it
\* stores the argument as the reduction type and leaves the handle unset.
C8_PureNcclConstruction ==
    cls = "PureNccl" =>
        \A p \in Group :
            comm[p].pc # "new" =>
                LET bad == \/ nccl.version < 2000
                           \/ dtype_arg # None /\ kind(dtype_arg) # "f"
                IN  /\ comm[p].pc = "failed" <=> bad
                    /\ comm[p].pc = "failed" =>
                          comm[p].err \in {"RuntimeError", "ValueError"}
                    /\ ~bad =>
                          /\ comm[p].allreduce_grad_dtype = dtype_arg
                          /\ Started(p) = 0 =>
                                /\ comm[p].nccl_comm = NoComm
                                /\ comm[p].hook_calls = 0

C8_Witness ==
    /\ cls = "PureNccl"
    /\ nccl.version >= 2000
    /\ dtype_arg = "int32"
    /\ \E p \in Group : comm[p].pc = "failed" /\ comm[p].err = "ValueError"

\* The communicator's unpack step run on what its pack step left, with no
\* collective in between: the gradient views it would write.
RoundTrip(self) ==
    LET sizes == Sizes(Select(model.params, Trainable))
        n == n_elems_of(model.params, Trainable)
    IN  IF cls = "PureNccl"
        THEN PureNccl_unpack_params_from_buffer(
                 [self EXCEPT !.gpu_allreduce_buffer_b =
                                  self.gpu_allreduce_buffer_a],
                 sizes, model.dtype,
                 PureNccl_wire_dtype(self, model.dtype), n).views
        ELSE unpack_params(sizes, self.gpu_buffer_a)

\* Half a step of the narrower of the storage type and the wire type.
HalfStep(self) ==
    LET wire == IF cls = "PureNccl" THEN PureNccl_wire_dtype(self, model.dtype)
                ELSE model.dtype
        narrower == IF itemsize(wire) < itemsize(model.dtype) THEN wire
                    ELSE model.dtype
    IN  <<1, 2 * resolution(narrower)>>

Pos(tr, ev) ==
    IF \E i \in 1..Len(tr) : tr[i] = ev
    THEN CHOOSE i \in 1..Len(tr) :
             tr[i] = ev /\ \A j \in 1..(i - 1) : tr[j] # ev
    ELSE 0

Last(tr, ev) ==
    IF \E i \in 1..Len(tr) : tr[i] = ev
    THEN CHOOSE i \in 1..Len(tr) :
             tr[i] = ev /\ \A j \in (i + 1)..Len(tr) : tr[j] # ev
    ELSE 0

Has(tr, ev) == Pos(tr, ev) # 0

Count(tr, ev) == Cardinality({i \in 1..Len(tr) : tr[i] = ev})

\* Both steps were taken, every a before every b.
Precedes(tr, a, b) == Has(tr, a) /\ Has(tr, b) /\ Last(tr, a) < Pos(tr, b)

\* The steps that submit the pack of the gradients into buffer A.
PackSteps == {"pack_a", "pack_tmp", "astype_wire", "copy_to_a"}

\* A PureNcclCommunicator inside or after allreduce_grad on a caller's stream.
OnCallerStream(p) ==
    /\ cls = "PureNccl"
    /\ comm[p].op = "allreduce_grad"
    /\ comm[p].stream # "null"

\* C11 as stated: with a caller's stream, the default stream is synchronized
\* before the pack is submitted, and the caller's stream after allReduce is
\* issued and before the reduced buffer is read.
C11_SyncBeforePack ==
    \A p \in Group :
        OnCallerStream(p) =>
            LET tr == comm[p].trace
            IN  /\ \A e \in {"pack_a", "pack_tmp"} :
                      Has(tr, e) => Precedes(tr, "null_synchronize", e)
                /\ Has(tr, "scale") =>
                      /\ Precedes(tr, "allReduce", "stream_synchronize")
                      /\ Precedes(tr, "stream_synchronize", "scale")

\* C11 amended: with a caller's stream, the default stream is synchronized
\* once, after the pack has been submitted and before allReduce is issued;
\* the caller's stream is synchronized once, after allReduce is issued and
\* before the reduced buffer is read for scaling and unpacking.
C11_SyncAfterPack ==
    \A p \in Group :
        OnCallerStream(p) =>
            LET tr == comm[p].trace
            IN  /\ Has(tr, "allReduce") =>
                      /\ Has(tr, "pack_a") \/ Has(tr, "pack_tmp")
                      /\ \A e \in PackSteps :
                            Has(tr, e) => Precedes(tr, e, "null_synchronize")
                      /\ Precedes(tr, "null_synchronize", "allReduce")
                      /\ Count(tr, "null_synchronize") = 1
                /\ Has(tr, "null_synchronize") =>
                      Has(tr, "pack_a") \/ Has(tr, "pack_tmp")
                /\ comm[p].pc = "idle" =>
                      /\ Precedes(tr, "allReduce", "stream_synchronize")
                      /\ Precedes(tr, "stream_synchronize", "scale")
                      /\ \A e \in {"unpack_b", "unpack_tmp", "astype_native"} :
                            Has(tr, e) => Precedes(tr, "stream_synchronize", e)
                      /\ Count(tr, "stream_synchronize") = 1

C11_Witness ==
    \E p \in Group :
        /\ OnCallerStream(p)
        /\ comm[p].pc = "idle"
        /\ returned[p]["allreduce_grad"] >= 1
        /\ Has(comm[p].trace, "pack_tmp")
        /\ Precedes(comm[p].trace, "pack_tmp", "null_synchronize")
        /\ Precedes(comm[p].trace, "stream_synchronize", "unpack_tmp")

\* ---------------------------------------------------- data flow of a call

\* The views of the parameters one after the other, as the pack lays them out.
RECURSIVE Flatten(_)
Flatten(views) ==
    IF views = <<>> THEN <<>> ELSE Head(views) \o Flatten(Tail(views))

\* The type the elements travel in.
Wire(self) ==
    IF cls = "PureNccl" THEN PureNccl_wire_dtype(self, model.dtype)
    ELSE model.dtype

\* The receive buffer of allReduce.
RecvBuffer(self) ==
    IF cls = "PureNccl" THEN self.gpu_allreduce_buffer_b ELSE self.gpu_buffer_b

\* Number of elements allreduce_grad moves.
NElems == n_elems_of(model.params, Trainable)

\* Every process of the group is past the same allReduce as p and has
\* started nothing since, so that its send buffer is the one it reduced.
InStep(p) ==
    \A q \in Group :
        /\ comm[q].op = "allreduce_grad"
        /\ comm[q].pc \in {"reduced", "idle"}
        /\ calls[q] = calls[p]

\* Element i of the sum of the send buffers of the group.
SentSum(i) ==
    SumRanks([q \in Group |-> array(SendBuffer(comm[q]), NElems)], i, size - 1)

\* C12: within one allreduce_grad call of either communicator the steps go
\* pack, reduce-sum, scale by 1/size, unpack: what is sent is the unscaled
\* gradients, what is received is their sum, and the factor 1/size is applied
\* once, to the receive buffer, after the reduction.
C12_ScaleAfterReduce ==
    \A p \in Group :
        comm[p].op = "allreduce_grad" =>
            LET tr == comm[p].trace
            IN  /\ Count(tr, "scale") <= 1
                /\ Has(tr, "scale") => Precedes(tr, "allReduce", "scale")
                /\ comm[p].pc = "allReduce" =>
                      /\ ~Has(tr, "scale")
                      /\ Has(tr, "pack_a") \/ Has(tr, "pack_tmp")
                      /\ \A e \in PackSteps :
                            Has(tr, e) => Precedes(tr, e, "allReduce")
                      /\ array(SendBuffer(comm[p]), NElems) =
                             astype(Flatten(Select(grad[p], Trainable)),
                                    model.dtype, Wire(comm[p]))
                /\ (comm[p].pc = "reduced" /\ InStep(p)) =>
                      /\ ~Has(tr, "scale")
                      /\ \A i \in 1..NElems :
                            array(RecvBuffer(comm[p]), NElems)[i] = SentSum(i)
                /\ comm[p].pc = "idle" =>
                      /\ Count(tr, "scale") = 1
                      /\ \A e \in {"unpack_b", "unpack_tmp"} :
                            Has(tr, e) => Precedes(tr, "scale", e)
                      /\ Has(tr, "unpack_b") \/ Has(tr, "unpack_tmp")
                      /\ InStep(p) =>
                            \A i \in 1..NElems :
                               array(RecvBuffer(comm[p]), NElems)[i] =
                                   RatMul(SentSum(i), <<1, size>>)

C12_Witness ==
    /\ cls = "SingleNode"
    /\ size > 1
    /\ Len(Trainable) = 2
    /\ grad0[0] # grad0[1]
    /\ \A p \in Group :
          /\ comm[p].op = "allreduce_grad"
          /\ comm[p].pc = "idle"
          /\ returned[p]["allreduce_grad"] = 1

\* --------------------------------------------------------- buffer capacity

\* Number of elements broadcast_data moves: the data views of all parameters.
NElemsData == n_elems_of(model.params, namedparams(model.params))

\* If the current call has taken the pack or unpack step, the buffer it
\* works on was assigned earlier in the call and holds n_bytes or more.
Fits(self, step, assigned, buf, n_bytes) ==
    Has(self.trace, step) =>
        /\ Precedes(self.trace, assigned, step)
        /\ buf.exists
        /\ buf.size >= n_bytes

\* C13: every buffer a call packs into or unpacks from has been assigned,
\* earlier in that call, at least (number of elements packed) * (item size of
\* the pack) bytes: buffers A and B and the staging buffer in
\* PureNcclCommunicator.allreduce_grad, buffers A and B in
\* SingleNodeCommunicator.allreduce_grad, buffer A in its broadcast_data.
C13_CapacityBeforePack ==
    \A p \in Group :
        LET self == comm[p]
            wire == itemsize(Wire(self)) * NElems
            native == itemsize(model.dtype) * NElems
        IN  /\ (cls = "PureNccl" /\ self.op = "allreduce_grad") =>
                  /\ Fits(self, "pack_a", "assign_a",
                          self.gpu_allreduce_buffer_a, wire)
                  /\ Fits(self, "copy_to_a", "assign_a",
                          self.gpu_allreduce_buffer_a, wire)
                  /\ Fits(self, "pack_tmp", "assign_tmp",
                          self.gpu_tmp_buffer, native)
                  /\ Fits(self, "unpack_b", "assign_b",
                          self.gpu_allreduce_buffer_b, wire)
                  /\ Fits(self, "unpack_tmp", "assign_tmp",
                          self.gpu_tmp_buffer, native)
            /\ (cls = "SingleNode" /\ self.op = "allreduce_grad") =>
                  /\ Fits(self, "pack_a", "assign_a", self.gpu_buffer_a,
                          SingleNodeItemsize * NElems)
                  /\ Fits(self, "unpack_b", "assign_b", self.gpu_buffer_b,
                          SingleNodeItemsize * NElems)
            /\ (cls = "SingleNode" /\ self.op = "broadcast_data") =>
                  /\ Fits(self, "pack_a", "assign_a", self.gpu_buffer_a,
                          SingleNodeItemsize * NElemsData)
                  /\ Fits(self, "unpack_a", "assign_a", self.gpu_buffer_a,
                          SingleNodeItemsize * NElemsData)

C13_Witness ==
    \E p \in Group :
        /\ cls = "PureNccl"
        /\ comm[p].op = "allreduce_grad"
        /\ NElems = 3
        /\ Has(comm[p].trace, "pack_tmp")
        /\ Has(comm[p].trace, "unpack_tmp")
        /\ itemsize(Wire(comm[p])) < itemsize(model.dtype)
        /\ comm[p].gpu_tmp_buffer.size = itemsize(model.dtype) * 3

\* ------------------------------------------------------- staging buffer

\* The steps that assign, write or read gpu_tmp_buffer, and the steps of
\* the path that does without it.
TmpSteps ==
    {"assign_tmp", "pack_tmp", "astype_wire", "copy_to_a",
     "astype_native", "copy_to_tmp", "unpack_tmp"}

DirectSteps == {"pack_a", "unpack_b"}

\* The steps a, b, c, ... of seq were all taken, in that order.
InOrder(tr, seq) ==
    \A k \in 1..(Len(seq) - 1) : Precedes(tr, seq[k], seq[k + 1])

\* C14: PureNcclCommunicator.allreduce_grad assigns, writes and reads
\* gpu_tmp_buffer exactly when the gradients' type differs from the wire
\* type.  Then the data goes gradients -> tmp -> convert -> A -> reduce ->
\* B -> convert back -> tmp -> gradients; with equal types it goes
\* gradients -> A -> reduce -> B -> gradients and gpu_tmp_buffer stays as
\* the constructor left it.
C14_StagingIffMixed ==
    \A p \in Group :
        (cls = "PureNccl" /\ comm[p].pc \notin {"new", "failed"}) =>
            LET self == comm[p]
                tr == self.trace
                sizes == Sizes(Select(model.params, Trainable))
            IN  IF NativeWire(self)
                THEN /\ self.gpu_tmp_buffer = DeviceMemory
                     /\ \A e \in TmpSteps : ~Has(tr, e)
                     /\ (self.op = "allreduce_grad" /\ self.pc = "idle") =>
                           /\ InOrder(tr, <<"assign_a", "pack_a", "allReduce",
                                             "scale", "unpack_b">>)
                           /\ Select(grad[p], Trainable) =
                                  unpack_params(sizes, self.gpu_allreduce_buffer_b)
                ELSE self.op = "allreduce_grad" =>
                     /\ \A e \in DirectSteps : ~Has(tr, e)
                     /\ Has(tr, "assign_a") <=> Has(tr, "assign_tmp")
                     /\ Has(tr, "assign_a") =>
                           /\ InOrder(tr, <<"assign_tmp", "pack_tmp",
                                             "astype_wire", "copy_to_a">>)
                           /\ self.gpu_tmp_buffer.size >=
                                  itemsize(model.dtype) * NElems
                     /\ self.pc = "allReduce" =>
                           /\ Precedes(tr, "copy_to_a", "allReduce")
                           /\ array(self.gpu_tmp_buffer, NElems) =
                                  Flatten(Select(grad[p], Trainable))
                           /\ array(self.gpu_allreduce_buffer_a, NElems) =
                                  astype(array(self.gpu_tmp_buffer, NElems),
                                         model.dtype, Wire(self))
                     /\ self.pc = "idle" =>
                           /\ InOrder(tr, <<"copy_to_a", "allReduce", "scale",
                                             "astype_native", "copy_to_tmp",
                                             "unpack_tmp">>)
                           /\ array(self.gpu_tmp_buffer, NElems) =
                                  astype(array(self.gpu_allreduce_buffer_b, NElems),
                                         Wire(self), model.dtype)
                           /\ Select(grad[p], Trainable) =
                                  unpack_params(sizes, self.gpu_tmp_buffer)

C14_Witness ==
    \E p \in Group :
        /\ cls = "PureNccl"
        /\ comm[p].op = "allreduce_grad"
        /\ comm[p].pc = "idle"
        /\ model.dtype = "float64"
        /\ dtype_arg = "float16"
        /\ NElems = 3
        /\ Has(comm[p].trace, "unpack_tmp")
        /\ array(comm[p].gpu_tmp_buffer, NElems) =
               Flatten(Select(grad[p], Trainable))

\* ------------------------------------------------------ NCCL not available

\* The current or last public operation of p goes through _init_comms.
NeedsHandle(p) ==
    \/ comm[p].op = "allreduce_grad"
    \/ cls = "SingleNode" /\ comm[p].op = "broadcast_data"

\* The device buffers of a communicator are as its constructor left them.
BuffersUntouched(self) ==
    IF cls = "PureNccl"
    THEN /\ self.gpu_tmp_buffer = DeviceMemory
         /\ self.gpu_allreduce_buffer_a = DeviceMemory
         /\ self.gpu_allreduce_buffer_b = DeviceMemory
    ELSE /\ self.gpu_buffer_a = DeviceMemory
         /\ self.gpu_buffer_b = DeviceMemory

\* C15: with NCCL not available, a public operation that needs the handle
\* raises RuntimeError out of _init_comms and has done nothing else: no
\* parameter extracted, no buffer assigned, no collective entered, the
\* handle unset, the hook never run, the model as it was.
C15_UnavailableFailsFirst ==
    ~nccl.available =>
        \A p \in Group :
            /\ Handle(comm[p]) = NoComm
            /\ comm[p].hook_calls = 0
            /\ comm[p].pc \notin {"allReduce", "reduced"}
            /\ cls = "SingleNode" => comm[p].pc \notin {"bcast", "bcasted"}
            /\ grad[p] = InitialGrad(p)
            /\ data[p] = DataViews(model.params,
                     IF returned[p]["broadcast_data"] = 0
                        /\ comm[p].pc # "bcasted" THEN p ELSE Root)
            /\ comm[p].pc \in {"idle", "raised", "bcast", "bcasted"} =>
                  BuffersUntouched(comm[p])
            /\ NeedsHandle(p) =>
                  /\ comm[p].pc = "raised"
                  /\ comm[p].err = "RuntimeError"
                  /\ comm[p].trace = <<"init_comms">>
                  /\ returned[p]["allreduce_grad"] = 0

C15_Witness ==
    /\ ~nccl.available
    /\ cls = "PureNccl"
    /\ size > 1
    /\ HasGrads(model.params)
    /\ \E p \in Group :
          /\ returned[p]["broadcast_data"] = 1
          /\ comm[p].op = "allreduce_grad"
          /\ comm[p].pc = "raised"
          /\ comm[p].err = "RuntimeError"

\* ------------------------------------------------------------- wire types

\* The type ids of the NCCL binding.
NcclTypeIds == {"NCCL_FLOAT16", "NCCL_FLOAT32", "NCCL_FLOAT64"}

\* C16: _get_nccl_type_id gives a type id for float16, float32 and float64
\* and raises ValueError for every other type; an allreduce_grad whose wire
\* type is another one raises that error without entering allReduce and
\* with the gradient views as they were.
C16_WireTypeTotal ==
    /\ \A d \in DtypeArgs \ {None} :
          /\ get_nccl_type_id(d) \in NcclTypeIds \cup {"ValueError"}
          /\ get_nccl_type_id(d) \in NcclTypeIds <=> d \in FloatDtypes
          /\ \A e \in FloatDtypes :
                (d # e /\ d \in FloatDtypes) =>
                    get_nccl_type_id(d) # get_nccl_type_id(e)
    /\ cls = "PureNccl" =>
          \A p \in Group :
              /\ comm[p].pc \in {"allReduce", "reduced"} =>
                    Wire(comm[p]) \in FloatDtypes
              /\ (comm[p].op = "allreduce_grad" /\ nccl.available
                  /\ HasGrads(model.params)
                  /\ Wire(comm[p]) \notin FloatDtypes) =>
                    /\ comm[p].pc = "raised"
                    /\ comm[p].err = "ValueError"
                    /\ ~Has(comm[p].trace, "allReduce")
                    /\ returned[p]["allreduce_grad"] = 0
                    /\ grad[p] = InitialGrad(p)

C16_Witness ==
    \E p \in Group :
        /\ cls = "PureNccl"
        /\ dtype_arg = "float128"
        /\ comm[p].op = "allreduce_grad"
        /\ comm[p].pc = "raised"
        /\ comm[p].err = "ValueError"
        /\ Has(comm[p].trace, "copy_to_a")

\* --------------------------------------------------------- group progress

\* How often process q has entered the collective allReduce: its calls of
\* allreduce_grad, less the one that raised before the collective.
Entered(q) ==
    calls[q]["allreduce_grad"] -
        (IF comm[q].op = "allreduce_grad" /\ comm[q].pc = "raised"
         THEN 1 ELSE 0)

\* Every process of the group is inside the allReduce of its k-th call.
AllAtCollective(k) ==
    \A p \in Group :
        comm[p].pc = "allReduce" /\ calls[p]["allreduce_grad"] = k

AllReturned(k) ==
    \A p \in Group : returned[p]["allreduce_grad"] >= k

\* No allreduce_grad call returns before every process of the group has
\* entered the matching collective.
NoReturnWithoutGroup ==
    \A p, q \in Group : returned[p]["allreduce_grad"] <= Entered(q)

\* C17: once every process of the group is inside the collective of its
\* allreduce_grad call, every one of these calls eventually returns (under
\* fairness); and as long as one process of the group has not entered the
\* matching collective (it has not called, or it raised before), no call of
\* another process returns.
C17_GroupProgress ==
    /\ \A k \in 1..MaxCalls : AllAtCollective(k) ~> AllReturned(k)
    /\ []NoReturnWithoutGroup

C17_Witness ==
    /\ size > 1
    /\ \A p \in Group : returned[p]["allreduce_grad"] = 1
    /\ comm[0].pc = "allReduce"
    /\ comm[1].pc = "idle"
    /\ calls[0]["allreduce_grad"] = 2

====
